---- MODULE Spec2Model ----
(***************************************************************************)
(* A model of planetPosition.js: the Kepler solver keplersEq, the helper   *)
(* getJulianFromUnix and the position calculator getPos.                   *)
(*                                                                         *)
(* JavaScript doubles are modelled as fixed-point integers.  A quantity    *)
(* held "at base B" is the integer round-toward-zero of value * B * B.     *)
(* keplersEq works at base KB (1e-8 resolution, so that its tolerance of   *)
(* 1e-6 is 100 units); getPos works at base PB (1e-4 resolution, so that   *)
(* the element polynomials, which reach tens of thousands of degrees, stay *)
(* inside TLC's 32-bit integers).                                          *)
(***************************************************************************)
EXTENDS Integers, Sequences, FiniteSets, TLC

VARIABLES
    pc,          \* "idle": no call in progress; "done": a call has finished
    fn,          \* which function the finished call was: "getPos", "keplersEq", "none"
    x, c,        \* keplersEq: its arguments
    y, diff,     \* keplersEq: its locals y and diff when it returned
    steps,       \* keplersEq: the Newton steps d_y it applied to y, in order
    planet, t, options,          \* getPos: its arguments
    unix_time, icrf, circular,   \* getPos: the three internal flags
    planet_idx,  \* getPos: the local planet_idx
    T, M, E,     \* getPos: centuries since 2000, wrapped mean anomaly, angle
    ret,         \* getPos: the returned array, <<>> when nothing was returned
    err,         \* getPos: the kind of the error thrown, "none" when none
    mjd          \* the global variable mjd of the script

vars == <<pc, fn, x, c, y, diff, steps, planet, t, options, unix_time, icrf,
          circular, planet_idx, T, M, E, ret, err, mjd>>

-----------------------------------------------------------------------------
(* Fixed-point arithmetic.                                                 *)

KB == 10^4          \* base of the keplersEq numbers: scale 10^8
KS == KB * KB
PB == 10^2          \* base of the getPos numbers: scale 10^4
PS == PB * PB

Abs(a) == IF a < 0 THEN -a ELSE a
Sgn(a) == IF a < 0 THEN -1 ELSE 1

\* In the operators below an argument that is used more than once is first
\* named in a LET, so that it is evaluated once.

\* a * b of two numbers at base B, rounded toward zero.  The operands are
\* split in two limbs so that no intermediate product leaves 32 bits.
Mul(a, b, B) ==
    LET av == a
        bv == b
        m  == Abs(av)
        n  == Abs(bv)
        m1 == m \div B
        m0 == m % B
        n1 == n \div B
        n0 == n % B
    IN  Sgn(av) * Sgn(bv) *
        (m1 * n1 + (m1 * n0 + m0 * n1 + (m0 * n0) \div B) \div B)

\* a / n for a plain integer n > 0, rounded toward zero.
DivInt(a, n) ==
    LET av == a
    IN  Sgn(av) * (Abs(av) \div n)

\* The k leading decimal digits of r / b for 0 <= r < b.
RECURSIVE Frac(_, _, _)
Frac(r, b, k) ==
    IF k = 0 THEN 0
    ELSE LET r10 == r * 10
         IN  (r10 \div b) * 10^(k - 1) + Frac(r10 % b, b, k - 1)

\* a / b of two numbers at scale 10^8 (b # 0), rounded toward zero.
Div(a, b) ==
    LET av == a
        bv == b
        m  == Abs(av)
        n  == Abs(bv)
    IN  Sgn(av) * Sgn(bv) * ((m \div n) * KS + Frac(m % n, n, 8))

\* Math.PI at scale 10^8, and at base B.
PiK == 314159265
Pi(B) == PiK \div (KS \div (B * B))

\* The Taylor series of sin(r)/r, r*r = r2, from the term of order k on.
RECURSIVE SinSeries(_, _, _)
SinSeries(r2, k, B) ==
    IF k > 15 THEN B * B
    ELSE LET rest == SinSeries(r2, k + 2, B)
         IN  B * B - DivInt(Mul(r2, rest, B), k * (k + 1))

\* Math.sin at base B: the argument is reduced to [-pi/2, pi/2].
Sin(a, B) ==
    LET p  == Pi(B)
        r0 == ((a + p) % (2 * p)) - p
        r  == IF r0 > p \div 2 THEN p - r0
              ELSE IF r0 < -(p \div 2) THEN -p - r0
              ELSE r0
        r2 == Mul(r, r, B)
    IN  Mul(r, SinSeries(r2, 2, B), B)

\* Math.cos at base B.
Cos(a, B) == Sin(a + Pi(B) \div 2, B)

\* The integer square root, by Newton's iteration from above.
RECURSIVE ISqrt(_, _)
ISqrt(n, g) ==
    IF n = 0 THEN 0
    ELSE LET h == (g + n \div g) \div 2
         IN  IF h >= g THEN g ELSE ISqrt(n, h)

\* Math.sqrt at base PB, for an argument in [0, 1].
Sqrt(a) == ISqrt(a * PS, PS)

-----------------------------------------------------------------------------
(* keplersEq.                                                              *)

\* A faulty variant of tol: var tol = 1.0e-1
tolLoose == KS \div 10

\* var tol = 1.0e-6
tol == KS \div 10^6

\* var diff = 100000
diff0 == 100000 * KB

\* d_y of one pass of the loop body.
NewtonStep(yy, xx, cc) ==
    LET yv  == yy
        d_x == xx - (yv - Mul(cc, Sin(yv, KB), KB))
    IN  Div(d_x, KS - Mul(cc, Cos(yv, KB), KB))

\* A faulty variant of the loop condition: while (Math.abs(diff) >= tol)
LoopCondInclusive(d) == Abs(d) >= tol

\* while (Math.abs(diff) > tol)
LoopCond(d) == Abs(d) > tol

\* The while loop: from y, diff and the steps taken so far to the state the
\* loop leaves.
RECURSIVE KeplerLoop(_, _, _, _, _)
KeplerLoop(xx, cc, yy, d, st) ==
    IF LoopCond(d)
    THEN LET d_y == NewtonStep(yy, xx, cc)
             y2  == yy + d_y
             st2 == Append(st, d_y)
         IN  KeplerLoop(xx, cc, y2, d_y, st2)
    ELSE [y |-> yy, diff |-> d, steps |-> st]

\* var y = x + Math.sin(x)
InitialGuess(xx) ==
    LET xv == xx
    IN  xv + Sin(xv, KB)

\* keplersEq(x, c): the locals at the return statement; y is returned.
keplersEq(xx, cc) ==
    LET xv == xx
        cv == cc
        y0 == InitialGuess(xv)
    IN  KeplerLoop(xv, cv, y0, diff0, <<>>)

-----------------------------------------------------------------------------
(* JavaScript values.                                                      *)

\* A number as the planet argument and planet_idx hold it: a finite value
\* at scale NS, NaN, or an infinity (v is its sign).
NS == 10^5
Num(v) == [kind |-> "finite", v |-> v]
NaN == [kind |-> "nan", v |-> 0]
PosInf == [kind |-> "inf", v |-> 1]
NegInf == [kind |-> "inf", v |-> -1]

\* Math.round: the nearest integer, a tie rounding up.
MathRound(n) ==
    IF n.kind = "finite" THEN Num(((n.v + NS \div 2) \div NS) * NS) ELSE n

\* a - b: an infinity minus itself is NaN.
NumSub(a, b) ==
    IF a.kind = "nan" \/ b.kind = "nan" THEN NaN
    ELSE IF a.kind = "inf" THEN (IF b.kind = "inf" /\ b.v = a.v THEN NaN ELSE a)
    ELSE IF b.kind = "inf" THEN [kind |-> "inf", v |-> -b.v]
    ELSE Num(a.v - b.v)

\* Math.abs
MathAbs(n) ==
    IF n.kind = "finite" THEN Num(Abs(n.v))
    ELSE IF n.kind = "inf" THEN PosInf
    ELSE NaN

\* a < b: false when either is NaN.
NumLt(a, b) ==
    /\ a.kind # "nan"
    /\ b.kind # "nan"
    /\ \/ a.kind = "finite" /\ b.kind = "finite" /\ a.v < b.v
       \/ a.kind = "inf" /\ a.v < 0 /\ ~(b.kind = "inf" /\ b.v < 0)
       \/ b.kind = "inf" /\ b.v > 0 /\ ~(a.kind = "inf" /\ a.v > 0)

\* a > b and a >= b
NumGt(a, b) == NumLt(b, a)
NumGe(a, b) == a.kind # "nan" /\ b.kind # "nan" /\ ~NumLt(a, b)

\* a % b of JavaScript for b > 0: the remainder has the sign of a.
JsRem(a, b) == IF a >= 0 THEN a % b ELSE -((-a) % b)

\* The key under which a local variable that is declared but not yet
\* assigned indexes an object: its value undefined, as a property name.
UnassignedKey == "undefined"

\* options[k] === undefined, for an options object that was passed.
LookupIsUndefined(opts, k) == k \notin opts.fields

-----------------------------------------------------------------------------
(* getPos.                                                                 *)

\* var parameters: the Keplerian elements a, e, I, L, w_line, om of the
\* eight planets and their rates per century, at base PB.
parameters ==
    <<
       <<3871, 2056, 70050, 2522503, 774578, 483308, 0, 0, -59, 1494726741, 1605, -1253>>,
       <<7233, 68, 33947, 1819791, 1316025, 766798, 0, 0, -8, 585178154, 27, -2777>>,
       <<10000, 167, 0, 1004646, 1029377, 0, 0, 0, -129, 359993724, 3233, 0>>,
       <<15237, 934, 18497, -45534, -239436, 495595, 0, 1, -81, 191403027, 4444, -2926>>,
       <<52029, 484, 13044, 343964, 147285, 1004739, -1, -1, -18, 30347461, 2125, 2047>>,
       <<95367, 539, 24860, 499542, 925989, 1136624, -13, -5, 19, 12224936, -4190, -2887>>,
       <<191892, 473, 7726, 3132381, 1709543, 740169, -20, 0, -24, 4284820, 4081, 424>>,
       <<300699, 86, 17700, -551200, 449648, 1317842, 3, 1, 4, 2184595, -3224, -51>>
    >>

planet_names ==
    <<"mercury", "venus", "earth", "mars", "jupiter", "saturn", "uranus", "neptune">>

\* The three flags after the "Set default values" block.  Each lookup is
\* options[unix_time], options[icrf], options[circular] with the local
\* variable itself as the key, and the local is unassigned at that point.
Flag(opts, local) ==
    IF ~opts.given THEN FALSE
    ELSE ~LookupIsUndefined(opts, local)

Flags(opts) ==
    [unix_time |-> Flag(opts, UnassignedKey),
     icrf      |-> Flag(opts, UnassignedKey),
     circular  |-> Flag(opts, UnassignedKey)]

\* if (Math.abs(planet_idx - planet) > 0.0001)
IsFraction(idx, p) == NumGt(MathAbs(NumSub(idx, p)), Num(NS \div 10^4))

\* A faulty variant of the range test: if (planet_idx < 0 || planet_idx > 8)
OutOfRangeInclusive(idx) == NumLt(idx, Num(0)) \/ NumGt(idx, Num(8 * NS))

\* if (planet_idx < 0 || planet_idx >= 8)
OutOfRange(idx) == NumLt(idx, Num(0)) \/ NumGe(idx, Num(8 * NS))

\* A faulty variant of the name lookup: planet_idx = i + 1
IndexOfNameOneBased(s) ==
    IF \E i \in 1..Len(planet_names) : planet_names[i] = s
    THEN CHOOSE i \in 1..Len(planet_names) : planet_names[i] = s
    ELSE -1

\* The for loop over planet_names: the index of the first name equal to s,
\* -1 when has_found_it stays false.
IndexOfName(s) ==
    IF \E i \in 1..Len(planet_names) : planet_names[i] = s
    THEN (CHOOSE i \in 1..Len(planet_names) :
              /\ planet_names[i] = s
              /\ \A j \in 1..(i - 1) : planet_names[j] # s) - 1
    ELSE -1

\* The validation of the planet argument: the error thrown ("none" when
\* none) and planet_idx as it stands then (it starts as 2).
\*   "The planet index cannot be a fraction!"                 InvalidPlanetIndex
\*   "The planet is out of range! It should be 0-indexed."    InvalidPlanetIndex
\*   "The planet argument has to be the name of an actual planet!"
\*                                                            UnknownPlanetName
\*   "The planet argument has to be an integer or a string!"  InvalidPlanetType
ResolvePlanet(p) ==
    IF p.type = "number"
    THEN LET idx == MathRound(p.num)
         IN  IF IsFraction(idx, p.num)
             THEN [err |-> "InvalidPlanetIndex", planet_idx |-> idx]
             ELSE IF OutOfRange(idx)
             THEN [err |-> "InvalidPlanetIndex", planet_idx |-> idx]
             ELSE [err |-> "none", planet_idx |-> idx]
    ELSE IF p.type = "string"
    THEN LET i == IndexOfName(p.str)
         IN  IF i < 0
             THEN [err |-> "UnknownPlanetName", planet_idx |-> Num(2 * NS)]
             ELSE [err |-> "none", planet_idx |-> Num(i * NS)]
    ELSE [err |-> "InvalidPlanetType", planet_idx |-> Num(2 * NS)]

\* Days are held to one decimal.
MjdScale == PB \div 10

\* getJulianFromUnix(unixMillisecs): unixMillisecs / 86400000 + 2440587.5
getJulianFromUnix(unixMillisecs) ==
    DivInt(unixMillisecs * MjdScale, 86400000) + 2440587 * MjdScale + MjdScale \div 2

\* T in the unix_time branch: (mjd - 2451544.5) / 36525
CenturiesFromMjd(m) ==
    DivInt((m - (2451544 * MjdScale + MjdScale \div 2)) * (PS \div MjdScale), 36525)

\* T in the other branch: (t - 2000) / 100
CenturiesFromYear(tt) == DivInt((tt - 2000) * PS, 100)

\* degrees * Math.PI / 180
Rad(deg) == DivInt(Mul(deg, Pi(PB), PB), 180)

\* parameters[planet_idx][k] + T * parameters[planet_idx][k + 6]
Element(row, k, TT) ==
    LET r == row
    IN  r[k + 1] + Mul(TT, r[k + 7], PB)

\* M = ((M + Math.PI) % (2 * Math.PI)) - Math.PI
WrapAnomaly(MM) ==
    LET s == MM + Pi(PB)
    IN  JsRem(s, 2 * Pi(PB)) - Pi(PB)

\* A number of getPos handed to keplersEq, and its result taken back.
ToK(v) == v * (KS \div PS)
FromK(v) == DivInt(v, KS \div PS)

\* pos_ecl from the planar position (px, py) and the angles w, om, I.
Ecliptic(px, py, w, om, I) ==
    LET xp == px
        yp == py
        cw == Cos(w, PB)
        sw == Sin(w, PB)
        co == Cos(om, PB)
        so == Sin(om, PB)
        cI == Cos(I, PB)
        sI == Sin(I, PB)
    IN  << Mul(Mul(cw, co, PB) - Mul(Mul(sw, so, PB), cI, PB), xp, PB)
             + Mul(-Mul(sw, co, PB) - Mul(Mul(cw, so, PB), cI, PB), yp, PB),
           Mul(Mul(cw, so, PB) + Mul(Mul(sw, co, PB), cI, PB), xp, PB)
             + Mul(-Mul(sw, so, PB) + Mul(Mul(cw, co, PB), cI, PB), yp, PB),
           Mul(Mul(sw, sI, PB), xp, PB) + Mul(Mul(cw, sI, PB), yp, PB) >>

\* var eps_rad = 23.43928 * Math.PI / 180
eps_rad == Rad(234393)

\* pos_icrf: pos_ecl turned about the x axis by eps_rad.
Icrf(pos) ==
    LET pos_ecl == pos
        ce == Cos(eps_rad, PB)
        se == Sin(eps_rad, PB)
    IN  << pos_ecl[1],
           Mul(ce, pos_ecl[2], PB) - Mul(se, pos_ecl[3], PB),
           Mul(se, pos_ecl[2], PB) + Mul(ce, pos_ecl[3], PB) >>

\* parameters[planet_idx] is a row of the table: planet_idx is one of the
\* property names 0..7 of the array.
IsTableRow(idx) ==
    idx.kind = "finite" /\ idx.v % NS = 0 /\ idx.v \div NS \in 0..(Len(parameters) - 1)

\* The part of getPos after the table lookup: from the row, T and the
\* flags to M, E and the returned array.
Position(row, TT, f) ==
    LET p      == row
        Tv     == TT
        a      == Element(p, 0, Tv)
        e      == Element(p, 1, Tv)
        I      == Rad(Element(p, 2, Tv))
        l      == Rad(Element(p, 3, Tv))
        w_line == Rad(Element(p, 4, Tv))
        om     == Rad(Element(p, 5, Tv))
        w      == w_line - om
        MM     == WrapAnomaly(l - w_line)
        EE     == IF f.circular = FALSE
                  THEN FromK(keplersEq(ToK(MM), ToK(e)).y)
                  ELSE MM
        px     == Mul(a, Cos(EE, PB) - e, PB)
        py     == Mul(Mul(a, Sqrt(PS - Mul(e, e, PB)), PB), Sin(EE, PB), PB)
        pos_ecl == Ecliptic(px, py, w, om, I)
    IN  [M |-> MM, E |-> EE,
         ret |-> IF f.icrf = FALSE THEN pos_ecl ELSE Icrf(pos_ecl)]

\* getPos(planet, t, options), called with the global mjd being g: what it
\* throws or returns, its locals at that point, and the global mjd after.
\* t is a whole number (of years, or of seconds in the unix_time branch).
getPos(p, tt, opts, g) ==
    LET f == Flags(opts)
        r == ResolvePlanet(p)
        row == parameters[r.planet_idx.v \div NS + 1]
        thrown == [err |-> r.err, ret |-> <<>>, flags |-> f,
                   planet_idx |-> r.planet_idx, T |-> 0, M |-> 0, E |-> 0,
                   mjd |-> g]
    IN  IF r.err # "none" THEN thrown
        ELSE
        LET g2 == IF f.unix_time
                  THEN [declared |-> TRUE, value |-> getJulianFromUnix(tt * 1000)]
                  ELSE g
            TT == IF f.unix_time
                  THEN CenturiesFromMjd(g2.value)
                  ELSE CenturiesFromYear(tt)
        IN  IF ~IsTableRow(r.planet_idx)
            THEN [thrown EXCEPT !.err = "TypeError", !.T = TT, !.mjd = g2]
            ELSE LET q == Position(row, TT, f)
                 IN  [err |-> "none", ret |-> q.ret, flags |-> f,
                      planet_idx |-> r.planet_idx, T |-> TT, M |-> q.M,
                      E |-> q.E, mjd |-> g2]

-----------------------------------------------------------------------------
(* The arguments the calls are made with.                                  *)

MaxPlanetNum == 8   \* numeric planet arguments run from -1 to MaxPlanetNum
MaxYears == 1       \* t runs over 2000 - MaxYears .. 2000 + MaxYears
MaxMGrid == 12      \* keplersEq: mean anomalies -pi + 2 pi k / MaxMGrid
MaxEGrid == 5       \* keplersEq: eccentricities 0.5 k / MaxEGrid

PlanetNumber(n) == [type |-> "number", num |-> n, str |-> ""]
PlanetString(s) == [type |-> "string", num |-> NaN, str |-> s]
PlanetOther(ty) == [type |-> ty, num |-> NaN, str |-> ""]

\* Offsets from a whole number: none, exactly the tolerance, just beyond
\* it, .3, .5, and the tolerance below the next whole number.
PlanetFractions == {0, NS \div 10^4, NS \div 10^4 + 1, 3 * (NS \div 10), NS \div 2,
                    NS - NS \div 10^4}

Planets ==
    {PlanetNumber(Num(k * NS + fr)) : k \in (-1)..MaxPlanetNum, fr \in PlanetFractions}
    \cup {PlanetNumber(NaN), PlanetNumber(PosInf), PlanetNumber(NegInf)}
    \cup {PlanetString(planet_names[i]) : i \in 1..Len(planet_names)}
    \cup {PlanetString("pluto"), PlanetString("Earth"), PlanetString("")}
    \cup {PlanetOther("object"), PlanetOther("undefined"), PlanetOther("boolean")}

Times == (2000 - MaxYears)..(2000 + MaxYears)

OptionNames == {"circular", "unix_time", "icrf"}

\* The options argument: omitted, or an object whose fields (those with a
\* value other than undefined) are any of these names.
OptionFields == OptionNames \cup {"undefined", "colour"}
NoOptions == [given |-> FALSE, fields |-> {}]
Options == {NoOptions} \cup {[given |-> TRUE, fields |-> fs] : fs \in SUBSET OptionFields}

MeanAnomalies ==
    {(PiK \div MaxMGrid) * (2 * k - MaxMGrid) : k \in 1..MaxMGrid} \cup {tol, -tol}

Eccentricities == {((KS \div 2) * k) \div MaxEGrid : k \in 0..MaxEGrid}

-----------------------------------------------------------------------------
(* The state machine: one call at a time, by a caller that takes the       *)
(* result before it calls again.                                           *)

NoPlanet == PlanetOther("none")
NoGlobal == [declared |-> FALSE, value |-> 0]

Init ==
    /\ pc = "idle"
    /\ fn = "none"
    /\ x = 0 /\ c = 0 /\ y = 0 /\ diff = 0 /\ steps = <<>>
    /\ planet = NoPlanet /\ t = 0 /\ options = NoOptions
    /\ unix_time = FALSE /\ icrf = FALSE /\ circular = FALSE
    /\ planet_idx = Num(0)
    /\ T = 0 /\ M = 0 /\ E = 0
    /\ ret = <<>>
    /\ err = "none"
    /\ mjd = NoGlobal

\* A call planetPosition.keplersEq(xx, cc).
CallKeplersEq ==
    /\ pc = "idle"
    /\ \E xx \in MeanAnomalies, cc \in Eccentricities :
         \E k \in {keplersEq(xx, cc)} :
           /\ x' = xx
           /\ c' = cc
           /\ y' = k.y
           /\ diff' = k.diff
           /\ steps' = k.steps
    /\ pc' = "done"
    /\ fn' = "keplersEq"
    /\ UNCHANGED <<planet, t, options, unix_time, icrf, circular, planet_idx,
                   T, M, E, ret, err, mjd>>

\* A call planetPosition.getPos(p, tt, opts).
CallGetPos ==
    /\ pc = "idle"
    /\ \E p \in Planets, tt \in Times, opts \in Options :
         \E r \in {getPos(p, tt, opts, mjd)} :
           /\ planet' = p
           /\ t' = tt
           /\ options' = opts
           /\ unix_time' = r.flags.unix_time
           /\ icrf' = r.flags.icrf
           /\ circular' = r.flags.circular
           /\ planet_idx' = r.planet_idx
           /\ T' = r.T
           /\ M' = r.M
           /\ E' = r.E
           /\ ret' = r.ret
           /\ err' = r.err
           /\ mjd' = r.mjd
    /\ pc' = "done"
    /\ fn' = "getPos"
    /\ UNCHANGED <<x, c, y, diff, steps>>

\* The caller takes the result: the frame of the call is gone, the globals
\* stay.
Return ==
    /\ pc = "done"
    /\ pc' = "idle"
    /\ fn' = "none"
    /\ x' = 0 /\ c' = 0 /\ y' = 0 /\ diff' = 0 /\ steps' = <<>>
    /\ planet' = NoPlanet /\ t' = 0 /\ options' = NoOptions
    /\ unix_time' = FALSE /\ icrf' = FALSE /\ circular' = FALSE
    /\ planet_idx' = Num(0)
    /\ T' = 0 /\ M' = 0 /\ E' = 0
    /\ ret' = <<>>
    /\ err' = "none"
    /\ UNCHANGED mjd

Next == CallKeplersEq \/ CallGetPos \/ Return

Spec == Init /\ [][Next]_vars

-----------------------------------------------------------------------------
(* The properties.                                                         *)

\* A call of getPos, or of keplersEq, has finished.
GetPosDone == pc = "done" /\ fn = "getPos"
KeplerDone == pc = "done" /\ fn = "keplersEq"

\* The eight canonical names, in the order of the indices 0..7.
CanonicalNames ==
    <<"mercury", "venus", "earth", "mars", "jupiter", "saturn", "uranus", "neptune">>

\* The distance of a finite number (at scale NS) from the nearest integer,
\* and that integer (a tie taken upward).
DistToInteger(v) ==
    LET m == v % NS
    IN  IF m > NS - m THEN NS - m ELSE m
NearestInteger(v) == (v + NS \div 2) \div NS

\* The caller set the field of this name in the options argument.
CallerSet(name) == options.given /\ name \in options.fields

RECURSIVE Sum(_)
Sum(sq) == IF sq = <<>> THEN 0 ELSE Head(sq) + Sum(Tail(sq))

\* C1: getPos rejects an invalid planet argument with the matching error
\* kind and returns nothing: a number further than 1e-4 from the nearest
\* integer, or one that rounds outside 0..7, raises InvalidPlanetIndex; a
\* string that is none of the eight canonical names raises
\* UnknownPlanetName; an argument that is neither a number nor a string
\* raises InvalidPlanetType; whatever t and options are.
C1_InvalidPlanetRejected ==
    GetPosDone =>
        /\ ( /\ planet.type = "number"
             /\ \/ planet.num.kind = "inf"
                \/ /\ planet.num.kind = "finite"
                   /\ \/ DistToInteger(planet.num.v) > NS \div 10^4
                      \/ NearestInteger(planet.num.v) \notin 0..7 )
           => (err = "InvalidPlanetIndex" /\ ret = <<>>)
        /\ ( /\ planet.type = "string"
             /\ \A i \in 1..Len(CanonicalNames) : planet.str # CanonicalNames[i] )
           => (err = "UnknownPlanetName" /\ ret = <<>>)
        /\ planet.type \notin {"number", "string"}
           => (err = "InvalidPlanetType" /\ ret = <<>>)

\* C1 witness: getPos(8, t, options) with an options object that sets
\* fields was rejected as an invalid planet index.
C1_Witness ==
    /\ GetPosDone
    /\ planet = PlanetNumber(Num(8 * NS))
    /\ options.given
    /\ options.fields # {}
    /\ err = "InvalidPlanetIndex"
    /\ ret = <<>>

\* C2: for a planet argument of type number, getPos either rejects the
\* call with a validation error or reaches the table lookup with
\* planet_idx an exact integer in 0..7.
C2_NumericIndexValidOrRejected ==
    (GetPosDone /\ planet.type = "number") =>
        \/ err \in {"InvalidPlanetIndex", "UnknownPlanetName", "InvalidPlanetType"}
        \/ /\ planet_idx.kind = "finite"
           /\ planet_idx.v \in {k * NS : k \in 0..7}

\* C3: getPos(i, t, options) and getPos(name_i, t, options) end the same
\* way, for every index i in 0..7, every t and every options.
C3_IndexAndNameAgree ==
    \A i \in 0..7 :
        (GetPosDone /\ planet = PlanetNumber(Num(i * NS))) =>
            \E byName \in {getPos(PlanetString(CanonicalNames[i + 1]), t, options, NoGlobal)} :
                /\ byName.ret = ret
                /\ byName.err = err

\* C3 witness: getPos(4, t, options) returned a position, the one that
\* getPos("jupiter", t, options) returns.
C3_Witness ==
    /\ GetPosDone
    /\ planet = PlanetNumber(Num(4 * NS))
    /\ err = "none"
    /\ Len(ret) = 3
    /\ ret = getPos(PlanetString("jupiter"), t, options, NoGlobal).ret

\* C4: the result of getPos(p, t, {icrf: true}) is the result of
\* getPos(p, t) turned about the x axis by the obliquity 23.43928 degrees.
C4_IcrfIsRotatedEcliptic ==
    (GetPosDone /\ err = "none" /\ options.given /\ options.fields = {"icrf"}) =>
        ret = Icrf(getPos(planet, t, NoOptions, NoGlobal).ret)

\* C5: each internal flag is on exactly when the caller set the field of
\* the same name in the options argument, and off otherwise.
C5_FlagsFollowOptions ==
    GetPosDone =>
        /\ circular = CallerSet("circular")
        /\ unix_time = CallerSet("unix_time")
        /\ icrf = CallerSet("icrf")

\* C6: getPos has no side effects: no step changes the global state.
C6_NoSideEffects == [][mjd' = mjd]_vars

\* C7: for every eccentricity in [0, 0.5] and mean anomaly in (-pi, pi],
\* the E that keplersEq returns has |M - (E - e sin E)| < 1e-5.
C7_KeplerResidual ==
    (KeplerDone /\ c >= 0 /\ c <= KS \div 2 /\ x > -PiK /\ x <= PiK) =>
        Abs(x - (y - Mul(c, Sin(y, KB), KB))) < KS \div 10^5

\* C7 witness: keplersEq returned for the eccentricity 0.5 after three or
\* more Newton steps.
C7_Witness ==
    /\ KeplerDone
    /\ c = KS \div 2
    /\ x > -PiK /\ x <= PiK
    /\ Len(steps) >= 3

\* C8: with unix_time set by the caller T is computed from t as seconds
\* since the Unix epoch; otherwise T = (t - 2000) / 100.
C8_CenturiesFollowUnixTime ==
    (GetPosDone /\ err = "none") =>
        T = IF CallerSet("unix_time")
            THEN CenturiesFromMjd(getJulianFromUnix(t * 1000))
            ELSE CenturiesFromYear(t)

\* C9: the mean anomaly handed to the Kepler solver or to the circular
\* shortcut lies in (-pi, pi].
C9_AnomalyWrapped ==
    (GetPosDone /\ err = "none") => (M > -Pi(PB) /\ M <= Pi(PB))

\* C10, as stated: keplersEq starts from x + sin(x), applies at least one
\* Newton step, and the step after which it returns is the first with
\* |d_y| < 1e-6; the y it returns includes that step.
C10_StopsBelowTol ==
    KeplerDone =>
        /\ Len(steps) >= 1
        /\ Abs(steps[Len(steps)]) < tol
        /\ \A i \in 1..(Len(steps) - 1) : ~(Abs(steps[i]) < tol)
        /\ diff = steps[Len(steps)]
        /\ y = x + Sin(x, KB) + Sum(steps)

\* C10, amended: keplersEq starts from x + sin(x), applies at least one
\* Newton step, and the step after which it returns is the first that is
\* not greater than 1e-6 in magnitude; the y it returns includes that step.
C10_StopsAtTol ==
    KeplerDone =>
        /\ Len(steps) >= 1
        /\ ~(Abs(steps[Len(steps)]) > tol)
        /\ \A i \in 1..(Len(steps) - 1) : Abs(steps[i]) > tol
        /\ diff = steps[Len(steps)]
        /\ y = x + Sin(x, KB) + Sum(steps)

\* C10 witness: keplersEq returned after several steps, the last of them
\* within the tolerance and all the earlier ones beyond it.
C10_Witness ==
    /\ KeplerDone
    /\ Len(steps) >= 3
    /\ Abs(steps[Len(steps)]) <= tol
    /\ \A i \in 1..(Len(steps) - 1) : Abs(steps[i]) > tol
    /\ y = x + Sin(x, KB) + Sum(steps)

====
